---- MODULE Spec2Model ----
(***************************************************************************)
(* A model of the mdfmt Markdown pretty-printer (package fmter): the line  *)
(* reflow function maxWidth, the construction of the Renderer from its     *)
(* functional options, and the node handlers driven by goldmark's          *)
(* depth-first enter/exit walk.                                            *)
(*                                                                         *)
(* Byte strings are sequences of one-character strings.  Indices named as  *)
(* in the Go source are 0-based; At(seq, i) reads the Go element seq[i].   *)
(***************************************************************************)
EXTENDS Integers, Sequences, FiniteSets, TLC

\* ------------------------------------------------------------------ bounds

\* Longest text handed to maxWidth in the reflow specification.
MaxLen == 6

\* Largest width handed to maxWidth in the reflow specification.
MaxW == 5

\* ------------------------------------------------------------ byte strings

SP == " "
NL == "\n"

\* the backtick byte, which a TLA+ string literal cannot hold
BT == "BT"

\* The bytes texts are drawn from: two letters, the space and the newline.
Bytes == {"a", "b", SP, NL}

\* All byte strings of length at most n.
Texts(n) == UNION {[1..k -> Bytes] : k \in 0..n}

At(seq, i) == seq[i + 1]

\* Go's s[lo:hi]
Slice(seq, lo, hi) == SubSeq(seq, lo + 1, hi)

RECURSIVE Repeat(_, _)
\* bytes.Repeat([]byte{b}, n); a negative count panics in Go and is guarded
\* by the callers of this operator.
Repeat(b, n) == IF n <= 0 THEN <<>> ELSE <<b>> \o Repeat(b, n - 1)

RECURSIVE Concat(_)
\* the concatenation of a sequence of byte strings
Concat(ss) == IF ss = <<>> THEN <<>> ELSE Head(ss) \o Concat(Tail(ss))

RECURSIVE TrimLeft(_)
TrimLeft(t) == IF t # <<>> /\ Head(t) = SP THEN TrimLeft(Tail(t)) ELSE t

RECURSIVE TrimRight(_)
TrimRight(t) ==
    IF t # <<>> /\ t[Len(t)] = SP THEN TrimRight(SubSeq(t, 1, Len(t) - 1)) ELSE t

\* bytes.Trim(t, " ")
Trim(t) == TrimRight(TrimLeft(t))

RECURSIVE SplitAcc(_, _, _, _)
SplitAcc(t, sep, cur, acc) ==
    IF t = <<>> THEN Append(acc, cur)
    ELSE IF Head(t) = sep THEN SplitAcc(Tail(t), sep, <<>>, Append(acc, cur))
    ELSE SplitAcc(Tail(t), sep, Append(cur, Head(t)), acc)

\* the pieces of t between occurrences of sep, empty pieces included
Split(t, sep) == SplitAcc(t, sep, <<>>, <<>>)

\* bytes.ReplaceAll(s, "\n", " ")
ReplaceAll(t) == [i \in 1..Len(t) |-> IF t[i] = NL THEN SP ELSE t[i]]

RECURSIVE FindFrom(_, _)
\* the 0-based positions of the spaces of t at or after position i, ascending
FindFrom(t, i) ==
    IF i >= Len(t) THEN <<>>
    ELSE IF At(t, i) = SP THEN <<i>> \o FindFrom(t, i + 1)
    ELSE FindFrom(t, i + 1)

\* spaceRegexp.FindAllIndex(t, -1), keeping the start of every match (the
\* only component the code reads)
FindAllIndex(t) == FindFrom(t, 0)

\* ------------------------------------------------------------------ reflow

\* inds without the prepended position 0
IndsOf_NoFirst(t) == FindAllIndex(t) \o <<Len(t)>>

\* inds with the position 0 prepended twice
IndsOf_Doubled(t) == <<0, 0>> \o FindAllIndex(t) \o <<Len(t)>>

\* inds as built by maxWidth: position 0, every space, len(sr)
IndsOf(t) == <<0>> \o FindAllIndex(t) \o <<Len(t)>>

\* the space a line starts at is counted in the line's length
SpOff_Zero(t, ix, ls) == 0

\* spOff for the line starting at inds[ls]
SpOff(t, ix, ls) == IF At(t, At(ix, ls)) # SP THEN 0 ELSE 1

RECURSIVE WordLoop_CheckBefore(_, _, _, _, _)
\* the inner loop with the bound tested on the line as it is, before the next
\* word is added, instead of on the line as it would become
WordLoop_CheckBefore(ix, ls, off, le, wd) ==
    IF le < Len(ix) - 1 /\ At(ix, le) - (At(ix, ls) + off) < wd
    THEN WordLoop_CheckBefore(ix, ls, off, le + 1, wd)
    ELSE le

RECURSIVE WordLoop_Tight(_, _, _, _, _)
\* the inner loop with the bound one character too small
WordLoop_Tight(ix, ls, off, le, wd) ==
    IF le < Len(ix) - 1 /\ At(ix, le + 1) - (At(ix, ls) + off) < wd - 1
    THEN WordLoop_Tight(ix, ls, off, le + 1, wd)
    ELSE le

RECURSIVE WordLoop(_, _, _, _, _)
\* the inner loop of maxWidth: the final value of lineEnd
WordLoop(ix, ls, off, le, wd) ==
    IF le < Len(ix) - 1 /\ At(ix, le + 1) - (At(ix, ls) + off) < wd
    THEN WordLoop(ix, ls, off, le + 1, wd)
    ELSE le

\* lineEnd after one iteration of the outer loop
LineEnd(t, ix, ls, wd) == WordLoop(ix, ls, SpOff(t, ix, ls), ls + 1, wd)

\* the line appended by one iteration of the outer loop
LineOf(t, ix, ls, le) == Trim(Slice(t, At(ix, ls), At(ix, le)))

RECURSIVE LineLoop(_, _, _, _, _)
\* the outer loop of maxWidth
LineLoop(t, ix, ls, wd, acc) ==
    IF ls < Len(ix) - 1
    THEN LineLoop(t, ix, LineEnd(t, ix, ls, wd), wd,
                  Append(acc, LineOf(t, ix, ls, LineEnd(t, ix, ls, wd))))
    ELSE acc

\* func maxWidth(s []byte, w int) [][]byte
maxWidth(t, wd) ==
    IF Len(t) = 0 THEN <<>>
    ELSE LineLoop(ReplaceAll(t), IndsOf(ReplaceAll(t)), 0, wd, <<>>)

\* --------------------------------------------------------- the parse tree

\* A node as the parser describes it: its kind, its children, the raw content
\* runs it spans (Lines), the info string of a fenced code block, and, for a
\* Text node, its segment value and its line-break flag.  The fields of the
\* other kinds (Heading.Level, List.IsOrdered, List.Start, List.Marker,
\* ListItem.Offset) start at their zero values.
Desc(kind, kids, lines, hasInfo, info, seg, brk) ==
    [kind |-> kind, kids |-> kids, lines |-> lines, hasInfo |-> hasInfo,
     info |-> info, seg |-> seg, brk |-> brk,
     level |-> 0, ordered |-> FALSE, start |-> 0, marker |-> "", offset |-> 0]

Block(kind, kids, lines) == Desc(kind, kids, lines, FALSE, <<>>, <<>>, FALSE)

TextNode(seg, brk) == Desc("Text", <<>>, <<>>, FALSE, <<>>, seg, brk)

RECURSIVE Size(_)
RECURSIVE SizeAll(_)
\* the number of nodes of a described tree
Size(d) == 1 + SizeAll(d.kids)
SizeAll(ds) == IF ds = <<>> THEN 0 ELSE Size(Head(ds)) + SizeAll(Tail(ds))

RECURSIVE KidIds(_, _)
\* the ids of the children ds of a node, the first child having id first
KidIds(ds, first) ==
    IF ds = <<>> THEN <<>>
    ELSE <<first>> \o KidIds(Tail(ds), first + Size(Head(ds)))

RECURSIVE Flatten(_, _, _, _)
RECURSIVE FlattenAll(_, _, _)
\* The tree as a sequence of nodes in document order, a node's id being its
\* position; parent and next are 0 where the Go pointer is nil.
Flatten(d, id, parent, next) ==
    <<[kind |-> d.kind, parent |-> parent, next |-> next,
       children |-> KidIds(d.kids, id + 1), lines |-> d.lines,
       hasInfo |-> d.hasInfo, info |-> d.info, seg |-> d.seg, brk |-> d.brk,
       level |-> d.level, ordered |-> d.ordered, start |-> d.start,
       marker |-> d.marker, offset |-> d.offset]>>
    \o FlattenAll(d.kids, id + 1, id)
FlattenAll(ds, first, parent) ==
    IF ds = <<>> THEN <<>>
    ELSE Flatten(Head(ds), first, parent,
                 IF Len(ds) > 1 THEN first + Size(Head(ds)) ELSE 0)
         \o FlattenAll(Tail(ds), first + Size(Head(ds)), parent)

\* a document whose top-level blocks are bs
Document(bs) == Flatten(Block("Document", bs, <<>>), 1, 0, 0)

\* ------------------------------------------------------------------- state

VARIABLES
    s,          \* maxWidth: the text argument
    w,          \* maxWidth: the width argument
    sr,         \* maxWidth: s with newlines replaced by spaces
    inds,       \* maxWidth: the boundary positions
    lineStart,  \* maxWidth: index into inds of the start of the next line
    res,        \* maxWidth: the lines produced so far
    pc,         \* maxWidth: "call", "loop" or "return"
    r,          \* the Renderer: codeFormatters and maxWidth
    doc,        \* the parse tree being rendered
    stack,      \* the walk: the callbacks still to make, next one first
    status,     \* the walk: "walking", "done", "stopped" or "panic"
    err,        \* the error the walk returned, "nil" if none
    out,        \* the bytes written to the sink w
    attrs,      \* the scratch attributes of every node
    log,        \* every callback made: node, direction, sink length before it
    calls,      \* every call of a code formatter: argument and outcome
    opts,       \* fmter.NewRenderer: the options passed
    oi,         \* fmter.NewRenderer: the number of options applied
    cfs,        \* mdfmt.NewRenderer: the formatters passed
    ctor        \* NewRenderer: "fmter" or "mdfmt" when called, "options" in the
                \* loop of fmter.NewRenderer, then "returned"

reflowVars == <<s, w, sr, inds, lineStart, res, pc>>

renderVars == <<doc, stack, status, err, out, attrs, log, calls>>

registryVars == <<opts, oi, cfs, ctor>>

vars == <<s, w, sr, inds, lineStart, res, pc, r, doc, stack, status, err, out,
          attrs, log, calls, opts, oi, cfs, ctor>>

\* the width NewRenderer starts from
DefaultMaxWidth == 80

\* the Renderer NewRenderer builds before it applies any option
NewRendererValue == [codeFormatters |-> <<>>, maxWidth |-> DefaultMaxWidth]

\* the values of the variables a specification does not use
IdleReflow ==
    /\ s = <<>> /\ w = 0 /\ sr = <<>> /\ inds = <<>> /\ lineStart = 0
    /\ res = <<>> /\ pc = "idle"

IdleRender ==
    /\ doc = <<>> /\ stack = <<>> /\ status = "idle" /\ err = "nil"
    /\ out = <<>> /\ attrs = <<>> /\ log = <<>> /\ calls = <<>>

IdleRegistry == opts = <<>> /\ oi = 0 /\ cfs = <<>> /\ ctor = "idle"

\* ---------------------------------------------- maxWidth, one step at a time

InitReflow ==
    /\ s \in Texts(MaxLen)
    /\ w \in (-1)..MaxW
    /\ sr = <<>>
    /\ inds = <<>>
    /\ lineStart = 0
    /\ res = <<>>
    /\ pc = "call"
    /\ r = NewRendererValue
    /\ IdleRender
    /\ IdleRegistry

\* maxWidth up to the outer loop: the early return on empty input, else the
\* construction of sr and inds
MaxWidthEnter ==
    /\ pc = "call"
    /\ IF Len(s) = 0
       THEN /\ pc' = "return"
            /\ UNCHANGED <<sr, inds>>
       ELSE /\ sr' = ReplaceAll(s)
            /\ inds' = IndsOf(ReplaceAll(s))
            /\ pc' = "loop"
    /\ UNCHANGED <<s, w, lineStart, res, r, renderVars, registryVars>>

\* one iteration of the outer loop: one line is appended
MaxWidthLine ==
    /\ pc = "loop"
    /\ lineStart < Len(inds) - 1
    /\ res' = Append(res, LineOf(sr, inds, lineStart, LineEnd(sr, inds, lineStart, w)))
    /\ lineStart' = LineEnd(sr, inds, lineStart, w)
    /\ UNCHANGED <<s, w, sr, inds, pc, r, renderVars, registryVars>>

\* the outer loop's exit
MaxWidthReturn ==
    /\ pc = "loop"
    /\ ~(lineStart < Len(inds) - 1)
    /\ pc' = "return"
    /\ UNCHANGED <<s, w, sr, inds, lineStart, res, r, renderVars, registryVars>>

NextReflow == MaxWidthEnter \/ MaxWidthLine \/ MaxWidthReturn

SpecReflow == InitReflow /\ [][NextReflow]_vars

\* Longest text in the calls followed to their return.
MaxFairLen == 5

InitReflowFair ==
    /\ s \in Texts(MaxFairLen)
    /\ w \in (-1)..MaxW
    /\ sr = <<>>
    /\ inds = <<>>
    /\ lineStart = 0
    /\ res = <<>>
    /\ pc = "call"
    /\ r = NewRendererValue
    /\ IdleRender
    /\ IdleRegistry

\* maxWidth is sequential code that keeps running until it returns
SpecReflowFair == InitReflowFair /\ [][NextReflow]_vars /\ WF_vars(NextReflow)

\* ------------------------------------------------- the documents rendered

\* Longest paragraph text in the documents rendered.
MaxParaLen == 5

\* Most cells in a table row of the documents rendered.
MaxCols == 2

\* Most data rows in a table of the documents rendered.
MaxRows == 1

\* The narrow width renderers are configured with, besides the default.
NarrowWidth == 3

Letters == {"a", "b"}

\* The text of a paragraph as the parser keeps it: it starts and ends with a
\* letter and no line starts with a space or is blank.
IsParagraphText(t) ==
    /\ t # <<>>
    /\ t[1] \in Letters
    /\ t[Len(t)] \in Letters
    /\ \A i \in 1..(Len(t) - 1) : t[i] = NL => t[i + 1] \in Letters

ParagraphTexts ==
    {t \in UNION {[1..k -> {"a", SP, NL}] : k \in 1..MaxParaLen} : IsParagraphText(t)}

\* the raw content runs of a paragraph: its source lines, each but the last
\* with its newline
SegmentsOf(t) ==
    [i \in 1..Len(Split(t, NL)) |->
        IF i < Len(Split(t, NL)) THEN Split(t, NL)[i] \o <<NL>> ELSE Split(t, NL)[i]]

\* a Paragraph with one Text child per source line
ParagraphOf(t) ==
    Block("Paragraph",
          [i \in 1..Len(Split(t, NL)) |-> TextNode(Split(t, NL)[i], i < Len(Split(t, NL)))],
          SegmentsOf(t))

Paragraphs == {ParagraphOf(t) : t \in ParagraphTexts}

LangGo == <<"g", "o">>
LangGoUpper == <<"G", "o">>

\* the content lines of the fenced code blocks rendered
CodeMenu == {<<>>, << <<"a", NL>> >>, << <<"a", NL>>, <<SP, "b", NL>> >>}

FencedOf(hasInfo, info, lines) ==
    Desc("FencedCodeBlock", <<>>, lines, hasInfo, info, <<>>, FALSE)

FencedBlocks ==
    {FencedOf(FALSE, <<>>, c) : c \in CodeMenu}
    \cup {FencedOf(TRUE, l, c) : l \in {LangGo, LangGoUpper}, c \in CodeMenu}

\* a table cell holding plain text
TextCell(t) == Block("TableCell", <<TextNode(t, FALSE)>>, <<t>>)

\* a table cell holding *t*: one Emphasis child around the text
EmphasisCell(t) ==
    Block("TableCell", << Block("Emphasis", <<TextNode(t, FALSE)>>, <<>>) >>,
          << <<"*">> \o t \o <<"*">> >>)

CellMenu == {TextCell(<<"a", "b", "b", "b">>), EmphasisCell(<<"a">>)}

CellRows == UNION {[1..k -> CellMenu] : k \in 1..MaxCols}

\* a Table: a TableHeader followed by TableRows
TableOf(header, rows) ==
    Block("Table",
          <<Block("TableHeader", header, <<>>)>>
          \o [i \in 1..Len(rows) |-> Block("TableRow", rows[i], <<>>)],
          <<>>)

Tables ==
    {TableOf(h, rs) : h \in CellRows, rs \in UNION {[1..k -> CellRows] : k \in 0..MaxRows}}

\* table rows and cells outside a table: trees built by hand, on which the
\* row and cell handlers find no attribute
StrayTableNodes ==
    {Block("TableHeader", <<c>>, <<>>) : c \in CellMenu}
    \cup {Block("TableRow", <<c>>, <<>>) : c \in CellMenu}
    \cup CellMenu

\* the paragraph that follows a block in the two-block documents
Follower == ParagraphOf(<<"b">>)

\* Most items in a list of the documents rendered.
MaxItems == 2

\* Deepest heading and most inline children of a heading in the documents
\* rendered.
MaxLevel == 2
MaxInline == 2

\* an indented code block and its content lines
CodeBlockOf(lines) == Block("CodeBlock", <<>>, lines)

CodeBlocks == {CodeBlockOf(c) : c \in CodeMenu \ {<<>>}}

\* a TextBlock, the paragraph of a tight list item, with one Text child per
\* source line
TextBlockOf(t) ==
    Block("TextBlock",
          [i \in 1..Len(Split(t, NL)) |-> TextNode(Split(t, NL)[i], i < Len(Split(t, NL)))],
          SegmentsOf(t))

EmphasisOf(kids) == Block("Emphasis", kids, <<>>)

\* a code span: its Text children hold the raw segments, a segment that ends
\* its source line holding the newline
CodeSpanOf(segs) ==
    Block("CodeSpan", [i \in 1..Len(segs) |-> TextNode(segs[i], FALSE)], <<>>)

HeadingOf(level, kids) == [Block("Heading", kids, <<>>) EXCEPT !.level = level]

ListItemOf(offset, kids) == [Block("ListItem", kids, <<>>) EXCEPT !.offset = offset]

ListOf(ordered, start, marker, items) ==
    [Block("List", items, <<>>) EXCEPT
        !.ordered = ordered, !.start = start, !.marker = marker]

\* the inline children of the headings rendered
InlineMenu ==
    {TextNode(<<"a">>, FALSE),
     EmphasisOf(<<TextNode(<<"a">>, FALSE)>>),
     EmphasisOf(<<TextNode(<<"a">>, TRUE), TextNode(<<"b">>, FALSE)>>),
     CodeSpanOf(<< <<"a", NL>>, <<"b">> >>),
     CodeSpanOf(<< <<"a", SP, "b">> >>),
     EmphasisOf(<<CodeSpanOf(<< <<"a">> >>)>>)}

Headings ==
    {HeadingOf(l, ks) :
        l \in 1..MaxLevel, ks \in UNION {[1..k -> InlineMenu] : k \in 1..MaxInline}}

\* paragraphs with an inline child that is not a Text node
InlineParagraphs ==
    {Block("Paragraph",
           <<TextNode(<<"a", SP>>, FALSE), EmphasisOf(<<TextNode(<<"a">>, FALSE)>>)>>,
           << <<"a", SP, "*", "a", "*">> >>),
     Block("Paragraph",
           <<TextNode(<<"a", SP, "a">>, TRUE), CodeSpanOf(<< <<"b">> >>)>>,
           << <<"a", SP, "a", NL>>, <<BT, "b", BT>> >>)}

\* the kinds of list rendered: bullet and numbered, with the offset of their
\* items' content
ListKinds ==
    {[ordered |-> FALSE, start |-> 0, marker |-> "-", offset |-> 2],
     [ordered |-> FALSE, start |-> 0, marker |-> "*", offset |-> 4],
     [ordered |-> TRUE, start |-> 1, marker |-> ".", offset |-> 3],
     [ordered |-> TRUE, start |-> 12, marker |-> ")", offset |-> 4]}

\* the list nested in an item
NestedList == ListOf(FALSE, 0, "-", <<ListItemOf(2, <<TextBlockOf(<<"b">>)>>)>>)

\* the items of the lists rendered: tight, loose, and with a nested list
ItemMenu(offset) ==
    {ListItemOf(offset, <<TextBlockOf(<<"a">>)>>),
     ListItemOf(offset, <<TextBlockOf(<<"a", SP, "a", NL, "a">>)>>),
     ListItemOf(offset, <<ParagraphOf(<<"a">>)>>),
     ListItemOf(offset, <<TextBlockOf(<<"a">>), NestedList>>)}

Lists ==
    UNION {{ListOf(k.ordered, k.start, k.marker, items) :
                items \in UNION {[1..n -> ItemMenu(k.offset)] : n \in 1..MaxItems}} :
           k \in ListKinds}

BlockquoteOf(kids) == Block("Blockquote", kids, <<>>)

\* the block quotes rendered: around one paragraph, around a paragraph of
\* several words and lines, and around two paragraphs
Blockquotes ==
    {BlockquoteOf(<<ParagraphOf(<<"a">>)>>),
     BlockquoteOf(<<ParagraphOf(<<"a", SP, "a", NL, "a">>)>>),
     BlockquoteOf(<<ParagraphOf(<<"a">>), ParagraphOf(<<"b">>)>>)}

ThematicBreakNode == Block("ThematicBreak", <<>>, <<>>)

HTMLBlockOf(lines) == Block("HTMLBlock", <<>>, lines)

\* the inline kinds whose handlers write nothing: links and images around
\* their text, and the leaves that hold their own value
QuietInlines ==
    {Block("Link", <<TextNode(<<"a">>, FALSE)>>, <<>>),
     Block("Link", <<EmphasisOf(<<TextNode(<<"a">>, FALSE)>>)>>, <<>>),
     Block("Image", <<TextNode(<<"a">>, FALSE)>>, <<>>),
     Block("AutoLink", <<>>, <<>>),
     Block("RawHTML", <<>>, <<>>),
     Block("String", <<>>, <<>>)}

\* the documents that hold the kinds above
QuietDocuments ==
    {<<ThematicBreakNode>>, <<ThematicBreakNode, Follower>>,
     <<HTMLBlockOf(<< <<"<", "p", ">", NL>> >>)>>,
     <<HTMLBlockOf(<< <<"<", "p", ">", NL>> >>), Follower>>}
    \cup {<<HeadingOf(1, <<k>>)>> : k \in QuietInlines}
    \cup {<<HeadingOf(1, <<TextNode(<<"a">>, FALSE), k>>)>> : k \in QuietInlines}
    \cup {<<HeadingOf(1, <<EmphasisOf(<<k>>)>>)>> : k \in QuietInlines}

\* ------------------------------------------------------- code formatters

\* What a call of CodeFormatter.Format can return: the code unchanged, some
\* other bytes, or an error.  The formatter is a black box.
FormatOutcomes(fmter, code) ==
    {[res |-> code, err |-> "nil"],
     [res |-> <<"f", NL>>, err |-> "nil"],
     [res |-> <<>>, err |-> "FormatError"]}

\* an entry already present is kept: the first registration wins
SetFormatter_KeepFirst(cf, l, fmter) ==
    [k \in DOMAIN cf \cup {l} |-> IF k \in DOMAIN cf THEN cf[k] ELSE fmter]

\* codeFormatters with the entry for language l set to fmter
SetFormatter(cf, l, fmter) ==
    [k \in DOMAIN cf \cup {l} |-> IF k = l THEN fmter ELSE cf[k]]

\* the registries of the renderers fenced code blocks are rendered with
Registries ==
    {<<>>,
     SetFormatter(<<>>, LangGo, "gofmt"),
     SetFormatter(SetFormatter(<<>>, LangGo, "gofmt"), <<>>, "other")}

\* The renders checked, each a document and the Renderer it is rendered with:
\* paragraphs at the narrow and at the default width, fenced code blocks with
\* every registry, tables with the Renderer NewRenderer builds without options.
Renders ==
    {[doc |-> Document(bs), r |-> [codeFormatters |-> <<>>, maxWidth |-> mw]] :
        bs \in {<<b>> : b \in Paragraphs} \cup {<<b, Follower>> : b \in Paragraphs},
        mw \in {NarrowWidth, DefaultMaxWidth}}
    \cup
    {[doc |-> Document(bs), r |-> [codeFormatters |-> cf, maxWidth |-> DefaultMaxWidth]] :
        bs \in {<<b>> : b \in FencedBlocks} \cup {<<b, Follower>> : b \in FencedBlocks}
               \cup {<<b, c>> : b \in FencedBlocks, c \in FencedBlocks},
        cf \in Registries}
    \cup
    {[doc |-> Document(<<b>>), r |-> NewRendererValue] : b \in Tables \cup StrayTableNodes}
    \cup
    {[doc |-> Document(bs), r |-> [codeFormatters |-> <<>>, maxWidth |-> mw]] :
        bs \in {<<b>> : b \in Lists} \cup {<<b, Follower>> : b \in Lists}
               \cup {<<b, NestedList>> : b \in Lists}
               \cup {<<b>> : b \in InlineParagraphs}
               \cup {<<b>> : b \in Blockquotes} \cup {<<b, Follower>> : b \in Blockquotes},
        mw \in {NarrowWidth, DefaultMaxWidth}}
    \cup
    {[doc |-> Document(bs), r |-> NewRendererValue] :
        bs \in {<<b>> : b \in CodeBlocks} \cup {<<b, Follower>> : b \in CodeBlocks}
               \cup {<<b>> : b \in Headings}
               \cup QuietDocuments}

\* ------------------------------------------------------------- the walk

NoAttributes == [hasWidths |-> FALSE, widths |-> <<>>, hasWidth |-> FALSE, width |-> 0]

Init ==
    /\ IdleReflow
    /\ IdleRegistry
    /\ \E job \in Renders : doc = job.doc /\ r = job.r
    /\ stack = <<[n |-> 1, entering |-> TRUE]>>
    /\ status = "walking"
    /\ err = "nil"
    /\ out = <<>>
    /\ attrs = [i \in 1..Len(doc) |-> NoAttributes]
    /\ log = <<>>
    /\ calls = <<>>

\* the callback the walk makes next, and its node
cur == Head(stack)
node == doc[cur.n]

\* the walk is about to call the handler registered for this kind
Calls(kind) ==
    /\ status = "walking"
    /\ stack # <<>>
    /\ node.kind = kind

Logged(ws) ==
    Append(log, [n |-> cur.n, entering |-> cur.entering, pos |-> Len(out), ws |-> ws])

\* What the walk does with the status and error a handler returns: stop on an
\* error or WalkStop; after entering, visit the children unless told to skip
\* them, then call the handler again on leaving; after leaving, go on.
WalkReturn(ws, e) ==
    /\ err' = e
    /\ IF e # "nil" \/ ws = "WalkStop"
       THEN /\ stack' = <<>>
            /\ status' = "stopped"
       ELSE IF cur.entering
       THEN /\ stack' =
                (IF ws = "WalkSkipChildren" THEN <<>>
                 ELSE [i \in 1..Len(node.children) |->
                          [n |-> node.children[i], entering |-> TRUE]])
                \o <<[n |-> cur.n, entering |-> FALSE]>>
                \o Tail(stack)
            /\ status' = "walking"
       ELSE /\ stack' = Tail(stack)
            /\ status' = IF Tail(stack) = <<>> THEN "done" ELSE "walking"

\* the handler writes bytes and returns (ws, e)
Returns(bytes, ws, e) ==
    /\ out' = out \o bytes
    /\ log' = Logged(ws)
    /\ WalkReturn(ws, e)
    /\ UNCHANGED <<reflowVars, r, doc, registryVars>>

\* the handler writes bytes and panics
Panics(bytes) ==
    /\ out' = out \o bytes
    /\ log' = Logged("panic")
    /\ stack' = <<>>
    /\ status' = "panic"
    /\ err' = err
    /\ UNCHANGED <<reflowVars, r, doc, registryVars>>

\* ------------------------------------------------------------- handlers

DecoratorPre(kind) ==
    CASE kind = "Emphasis" -> <<"*", "*">>
      [] kind = "CodeSpan" -> <<BT>>
      [] kind = "Blockquote" -> <<">", SP>>
      [] OTHER -> <<>>

DecoratorPost(kind) ==
    CASE kind = "Emphasis" -> <<"*", "*">>
      [] kind = "CodeSpan" -> <<BT>>
      [] OTHER -> <<>>

\* the lines of a block, each followed by a newline
WithNewlines(ls) == Concat([i \in 1..Len(ls) |-> ls[i] \o <<NL>>])

renderDocument ==
    /\ Calls("Document")
    /\ Returns(<<>>, "WalkContinue", "nil")
    /\ UNCHANGED <<attrs, calls>>

\* what renderParagraph writes on leaving a node whose parent has kind pk
ParagraphExitBytes(pk) == IF pk = "Document" THEN <<NL>> ELSE <<>>

\* the children are visited after the paragraph is written
ParagraphStatus_Continue == "WalkContinue"

\* the status renderParagraph returns
ParagraphStatus == "WalkSkipChildren"

renderParagraph ==
    /\ Calls("Paragraph")
    /\ IF cur.entering
       THEN Returns(WithNewlines(maxWidth(Concat(node.lines), r.maxWidth)),
                    ParagraphStatus, "nil")
       ELSE Returns(ParagraphExitBytes(doc[node.parent].kind), ParagraphStatus, "nil")
    /\ UNCHANGED <<attrs, calls>>

\* what renderTextBlock writes on leaving a node whose parent has kind pk
TextBlockExitBytes_Always(pk) == <<NL>>

TextBlockExitBytes(pk) == IF pk = "Document" THEN <<NL>> ELSE <<>>

renderTextBlock ==
    /\ Calls("TextBlock")
    /\ IF cur.entering
       THEN Returns(WithNewlines(maxWidth(Concat(node.lines), r.maxWidth)),
                    "WalkSkipChildren", "nil")
       ELSE Returns(TextBlockExitBytes(doc[node.parent].kind), "WalkSkipChildren", "nil")
    /\ UNCHANGED <<attrs, calls>>

renderHeading ==
    /\ Calls("Heading")
    /\ IF cur.entering
       THEN Returns(Repeat("#", node.level) \o <<SP>>, "WalkContinue", "nil")
       ELSE Returns(<<NL, NL>>, "WalkContinue", "nil")
    /\ UNCHANGED <<attrs, calls>>

renderBlockquote ==
    /\ Calls("Blockquote")
    /\ IF cur.entering
       THEN Returns(DecoratorPre("Blockquote"), "WalkContinue", "nil")
       ELSE Returns(DecoratorPost("Blockquote") \o <<NL>>, "WalkContinue", "nil")
    /\ UNCHANGED <<attrs, calls>>

renderCodeBlock ==
    /\ Calls("CodeBlock")
    /\ Returns(<<>>, "WalkContinue", "nil")
    /\ UNCHANGED <<attrs, calls>>

renderHTMLBlock ==
    /\ Calls("HTMLBlock")
    /\ Returns(<<>>, "WalkContinue", "nil")
    /\ UNCHANGED <<attrs, calls>>

renderThematicBreak ==
    /\ Calls("ThematicBreak")
    /\ IF cur.entering
       THEN Returns(<<"-", "-", "-">>, "WalkContinue", "nil")
       ELSE Returns(<<NL>>, "WalkContinue", "nil")
    /\ UNCHANGED <<attrs, calls>>

renderAutoLink ==
    /\ Calls("AutoLink")
    /\ Returns(<<>>, "WalkContinue", "nil")
    /\ UNCHANGED <<attrs, calls>>

renderImage ==
    /\ Calls("Image")
    /\ Returns(<<>>, "WalkContinue", "nil")
    /\ UNCHANGED <<attrs, calls>>

renderLink ==
    /\ Calls("Link")
    /\ Returns(<<>>, "WalkContinue", "nil")
    /\ UNCHANGED <<attrs, calls>>

renderRawHTML ==
    /\ Calls("RawHTML")
    /\ Returns(<<>>, "WalkContinue", "nil")
    /\ UNCHANGED <<attrs, calls>>

renderString ==
    /\ Calls("String")
    /\ Returns(<<>>, "WalkContinue", "nil")
    /\ UNCHANGED <<attrs, calls>>

\* what renderList writes on leaving nd
ListExitBytes_UnlessList(nd) ==
    IF nd.next # 0 /\ doc[nd.next].kind = "List" THEN <<>> ELSE <<NL>>

ListExitBytes(nd) ==
    IF nd.next # 0 /\ doc[nd.next].kind # "List" THEN <<NL>> ELSE <<>>

renderList ==
    /\ Calls("List")
    /\ IF cur.entering
       THEN Returns(<<>>, "WalkContinue", "nil")
       ELSE Returns(ListExitBytes(node), "WalkContinue", "nil")
    /\ UNCHANGED <<attrs, calls>>

Digit(d) == <<"0", "1", "2", "3", "4", "5", "6", "7", "8", "9">>[d + 1]

RECURSIVE Itoa(_)
\* the verb %d applied to a number that is not negative
Itoa(n) == IF n < 10 THEN <<Digit(n)>> ELSE Itoa(n \div 10) \o <<Digit(n % 10)>>

\* the number is counted up from the start, item by item
ItemMarker_Counting(l, li) ==
    IF l.ordered
    THEN Itoa(l.start + (CHOOSE k \in 1..Len(l.children) : doc[l.children[k]] = li) - 1)
         \o <<l.marker, SP>>
    ELSE <<l.marker, SP>>

\* the marker renderListItem writes for the item li of the list l
ItemMarker(l, li) ==
    IF l.ordered THEN Itoa(l.start) \o <<l.marker, SP>> ELSE <<l.marker, SP>>

renderListItem ==
    /\ Calls("ListItem")
    /\ IF ~cur.entering
       THEN Returns(<<>>, "WalkContinue", "nil")
       ELSE IF node.offset - 2 < 0
       THEN Panics(<<>>)
       ELSE Returns(Repeat(SP, node.offset - 2) \o ItemMarker(doc[node.parent], node),
                    "WalkContinue", "nil")
    /\ UNCHANGED <<attrs, calls>>

\* the opening fence line of a fenced code block
FenceOpen(nd) == <<BT, BT, BT>> \o (IF nd.hasInfo THEN nd.info ELSE <<>>) \o <<NL>>

FenceClose == <<BT, BT, BT, NL>>

\* string(ln): the key the block's language is looked up under
LanguageKey(nd) == IF nd.hasInfo THEN nd.info ELSE <<>>

\* nothing is written for a block without formatter
UnformattedBytes_Dropped(lines) == <<>>

\* what renderFencedCodeBlock writes after the opening fence line when no
\* formatter is registered for the block's language
UnformattedBytes(lines) == lines

\* the raw lines are written as well as the formatter's result
FormattedBytes_AndRaw(lines, fres) == lines \o fres

\* what renderFencedCodeBlock writes after the opening fence line when the
\* formatter returned res
FormattedBytes(lines, fres) == fres

\* the raw lines are written before the formatter's error is returned
FailedBytes_WithRaw(nd, lines) == FenceOpen(nd) \o lines

\* what renderFencedCodeBlock has written when it returns the formatter's error
FailedBytes(nd, lines) == FenceOpen(nd)

renderFencedCodeBlock ==
    /\ Calls("FencedCodeBlock")
    /\ IF ~cur.entering
       THEN /\ Returns(FenceClose, "WalkContinue", "nil")
            /\ UNCHANGED calls
       ELSE IF LanguageKey(node) \in DOMAIN r.codeFormatters
       THEN \E o \in FormatOutcomes(r.codeFormatters[LanguageKey(node)], Concat(node.lines)) :
                /\ calls' = Append(calls,
                        [n |-> cur.n, fmter |-> r.codeFormatters[LanguageKey(node)],
                         code |-> Concat(node.lines), res |-> o.res, err |-> o.err])
                /\ IF o.err # "nil"
                   THEN Returns(FailedBytes(node, Concat(node.lines)), "WalkStop", o.err)
                   ELSE Returns(FenceOpen(node) \o FormattedBytes(Concat(node.lines), o.res),
                                "WalkContinue", "nil")
       ELSE /\ Returns(FenceOpen(node) \o UnformattedBytes(Concat(node.lines)),
                       "WalkContinue", "nil")
            /\ UNCHANGED calls
    /\ UNCHANGED attrs

\* the segment is written as it is
SpanValue_Raw(v) == v

\* segment.Value(s) as renderCodeSpan and renderEmphasis write it: a trailing
\* newline becomes a space
SpanValue(v) ==
    IF v # <<>> /\ v[Len(v)] = NL THEN SubSeq(v, 1, Len(v) - 1) \o <<SP>> ELSE v

\* the children of nd before the first one that is not a Text node
TextPrefix(nd) ==
    IF \E i \in 1..Len(nd.children) : doc[nd.children[i]].kind # "Text"
    THEN SubSeq(nd.children, 1,
                (CHOOSE i \in 1..Len(nd.children) :
                    /\ doc[nd.children[i]].kind # "Text"
                    /\ \A j \in 1..(i - 1) : doc[nd.children[j]].kind = "Text") - 1)
    ELSE nd.children

SpanValues(ids) == Concat([i \in 1..Len(ids) |-> SpanValue(doc[ids[i]].seg)])

renderEmphasis ==
    /\ Calls("Emphasis")
    /\ IF ~cur.entering
       THEN Returns(DecoratorPost("Emphasis"), "WalkContinue", "nil")
       ELSE IF TextPrefix(node) # node.children
       THEN Panics(DecoratorPre("Emphasis") \o SpanValues(TextPrefix(node)))
       ELSE Returns(DecoratorPre("Emphasis") \o SpanValues(node.children),
                    "WalkSkipChildren", "nil")
    /\ UNCHANGED <<attrs, calls>>

renderCodeSpan ==
    /\ Calls("CodeSpan")
    /\ IF ~cur.entering
       THEN Returns(DecoratorPost("CodeSpan"), "WalkContinue", "nil")
       ELSE IF TextPrefix(node) # node.children
       THEN Panics(DecoratorPre("CodeSpan") \o SpanValues(TextPrefix(node)))
       ELSE Returns(DecoratorPre("CodeSpan") \o SpanValues(node.children),
                    "WalkSkipChildren", "nil")
    /\ UNCHANGED <<attrs, calls>>

renderText ==
    /\ Calls("Text")
    /\ IF ~cur.entering
       THEN Returns(<<>>, "WalkContinue", "nil")
       ELSE Returns(node.seg \o (IF node.brk THEN <<NL>> ELSE <<>>), "WalkContinue", "nil")
    /\ UNCHANGED <<attrs, calls>>

\* ------------------------------------------------------- table handlers

RECURSIVE SumLen(_)
\* the summed length of the raw content runs ls
SumLen(ls) == IF ls = <<>> THEN 0 ELSE Len(Head(ls)) + SumLen(Tail(ls))

\* the raw content length renderTable and renderTableCell measure for cell c
CellLen(c) == SumLen(doc[c].lines)

MaxOf(S) == CHOOSE x \in S : \A y \in S : y <= x

\* the cells of column cx (0-based) over the rows, where a row has one
ColumnCells(rows, cx) ==
    {At(doc[rows[i]].children, cx) :
        i \in {j \in 1..Len(rows) : cx < Len(doc[rows[j]].children)}}

\* the widths are those of the cells of the first row
ColumnWidths_Header(rows) ==
    [k \in 1..Len(doc[rows[1]].children) |-> CellLen(doc[rows[1]].children[k])]

\* gcl after the first loop of renderTable: one entry per cell of the first
\* row, each the largest raw content length found in that column
ColumnWidths(rows) ==
    [k \in 1..Len(doc[rows[1]].children) |->
        MaxOf({0} \cup {CellLen(c) : c \in ColumnCells(rows, k - 1)})]

\* the cells beyond the first row's are left out of the measure
IndexOutOfRange_Never(rows) == FALSE

\* gcl[cx] is read for a cx outside gcl: some row has more cells than the
\* first row
IndexOutOfRange(rows) ==
    \E i \in 1..Len(rows) : Len(doc[rows[i]].children) > Len(doc[rows[1]].children)

\* only the first row gets the attribute
SetWidths_FirstRow(as, rows, gcl) ==
    [i \in 1..Len(as) |->
        IF rows[1] = i
        THEN [as[i] EXCEPT !.hasWidths = TRUE, !.widths = gcl]
        ELSE as[i]]

\* the second loop of renderTable: every row gets the attribute column-widths
SetWidths(as, rows, gcl) ==
    [i \in 1..Len(as) |->
        IF \E j \in 1..Len(rows) : rows[j] = i
        THEN [as[i] EXCEPT !.hasWidths = TRUE, !.widths = gcl]
        ELSE as[i]]

renderTable ==
    /\ Calls("Table")
    /\ IF ~cur.entering
       THEN /\ Returns(<<NL>>, "WalkContinue", "nil")
            /\ UNCHANGED attrs
       ELSE IF node.children = <<>> \/ IndexOutOfRange(node.children)
       THEN /\ Panics(<<>>)
            /\ UNCHANGED attrs
       ELSE /\ attrs' = SetWidths(attrs, node.children, ColumnWidths(node.children))
            /\ Returns(<<>>, "WalkContinue", "nil")
    /\ UNCHANGED calls

\* the loop of renderTableHeader and renderTableRow on entering: every cell
\* gets the width of its column
SetWidth(as, cells, gcl) ==
    [i \in 1..Len(as) |->
        IF \E j \in 1..Len(cells) : cells[j] = i
        THEN [as[i] EXCEPT !.hasWidth = TRUE,
                           !.width = gcl[CHOOSE j \in 1..Len(cells) : cells[j] = i]]
        ELSE as[i]]

\* the separator row for the first k columns
Separator(gcl, k) == Concat([cx \in 1..k |-> <<"|">> \o Repeat("-", gcl[cx] + 2)])

renderTableHeader ==
    /\ Calls("TableHeader")
    /\ IF ~attrs[cur.n].hasWidths
       THEN /\ Panics(<<>>)
            /\ UNCHANGED attrs
       ELSE IF cur.entering
       THEN IF Len(node.children) > Len(attrs[cur.n].widths)
            THEN /\ Panics(<<>>)
                 /\ attrs' = SetWidth(attrs,
                                 SubSeq(node.children, 1, Len(attrs[cur.n].widths)),
                                 attrs[cur.n].widths)
            ELSE /\ attrs' = SetWidth(attrs, node.children, attrs[cur.n].widths)
                 /\ Returns(<<>>, "WalkContinue", "nil")
       ELSE /\ UNCHANGED attrs
            /\ IF Len(node.children) > Len(attrs[cur.n].widths)
               THEN Panics(<<"|", NL>>
                           \o Separator(attrs[cur.n].widths, Len(attrs[cur.n].widths))
                           \o <<"|">>)
               ELSE Returns(<<"|", NL>>
                            \o Separator(attrs[cur.n].widths, Len(node.children))
                            \o <<"|", NL>>,
                            "WalkContinue", "nil")
    /\ UNCHANGED calls

renderTableRow ==
    /\ Calls("TableRow")
    /\ IF ~attrs[cur.n].hasWidths
       THEN /\ Panics(<<>>)
            /\ UNCHANGED attrs
       ELSE IF cur.entering
       THEN IF Len(node.children) > Len(attrs[cur.n].widths)
            THEN /\ Panics(<<>>)
                 /\ attrs' = SetWidth(attrs,
                                 SubSeq(node.children, 1, Len(attrs[cur.n].widths)),
                                 attrs[cur.n].widths)
            ELSE /\ attrs' = SetWidth(attrs, node.children, attrs[cur.n].widths)
                 /\ Returns(<<>>, "WalkContinue", "nil")
       ELSE /\ UNCHANGED attrs
            /\ Returns(<<"|", NL>>, "WalkContinue", "nil")
    /\ UNCHANGED calls

\* pl of renderTableCell: the column width less the cell's raw content length
Padding(wd, tl) == wd - tl

renderTableCell ==
    /\ Calls("TableCell")
    /\ IF cur.entering
       THEN Returns(<<"|", SP>>, "WalkContinue", "nil")
       ELSE IF ~attrs[cur.n].hasWidth
       THEN Panics(<<>>)
       ELSE IF Padding(attrs[cur.n].width, CellLen(cur.n)) + 1 < 0
       THEN Panics(<<>>)
       ELSE Returns(Repeat(SP, Padding(attrs[cur.n].width, CellLen(cur.n)) + 1),
                    "WalkContinue", "nil")
    /\ UNCHANGED <<attrs, calls>>

Next ==
    \/ renderDocument
    \/ renderParagraph
    \/ renderTextBlock
    \/ renderHeading
    \/ renderBlockquote
    \/ renderCodeBlock
    \/ renderFencedCodeBlock
    \/ renderHTMLBlock
    \/ renderList
    \/ renderListItem
    \/ renderThematicBreak
    \/ renderAutoLink
    \/ renderImage
    \/ renderLink
    \/ renderRawHTML
    \/ renderString
    \/ renderCodeSpan
    \/ renderEmphasis
    \/ renderText
    \/ renderTable
    \/ renderTableHeader
    \/ renderTableRow
    \/ renderTableCell

Spec == Init /\ [][Next]_vars

\* ------------------------------------------------- building the Renderer

\* Most options passed to fmter.NewRenderer.
MaxOpts == 3

\* Most formatters passed to mdfmt.NewRenderer.
MaxFormatters == 2

Languages == {LangGo, LangGoUpper}

Formatters == {"gofmt", "other"}

\* WithCodeFenceFormatter(language, fmter)
WithCodeFenceFormatter(language, fmter) ==
    [type |-> "withCodeFencerFormatter", l |-> language, fmter |-> fmter, w |-> 0]

\* WithMaxCharacterWidth(w)
WithMaxCharacterWidth(wd) ==
    [type |-> "withMaxCharacterWidth", l |-> <<>>, fmter |-> "nil", w |-> wd]

OptionMenu ==
    {WithCodeFenceFormatter(l, f) : l \in Languages, f \in Formatters}
    \cup {WithMaxCharacterWidth(wd) : wd \in {-1, 0, NarrowWidth}}

\* a formatter of package mdfmt and the languages it declares
FormatterMenu ==
    {[fmter |-> f, languages |-> ls] :
        f \in Formatters,
        ls \in {<<>>, <<LangGo>>, <<LangGoUpper>>, <<LangGo, LangGoUpper>>}}

InitRegistry ==
    /\ IdleReflow
    /\ IdleRender
    /\ r = [codeFormatters |-> <<>>, maxWidth |-> 0]
    /\ oi = 0
    /\ \/ /\ ctor = "fmter"
          /\ opts \in UNION {[1..k -> OptionMenu] : k \in 0..MaxOpts}
          /\ cfs = <<>>
       \/ /\ ctor = "mdfmt"
          /\ opts = <<>>
          /\ cfs \in UNION {[1..k -> FormatterMenu] : k \in 0..MaxFormatters}

\* fmter.NewRenderer up to its loop: the Renderer it starts from
NewRenderer ==
    /\ ctor = "fmter"
    /\ r' = NewRendererValue
    /\ ctor' = "options"
    /\ UNCHANGED <<opts, oi, cfs>>

\* the next option of the loop is a withCodeFencerFormatter
withCodeFencerFormatter ==
    /\ ctor = "options"
    /\ oi < Len(opts)
    /\ opts[oi + 1].type = "withCodeFencerFormatter"
    /\ r' = [r EXCEPT !.codeFormatters =
                SetFormatter(r.codeFormatters, opts[oi + 1].l, opts[oi + 1].fmter)]
    /\ oi' = oi + 1
    /\ UNCHANGED <<opts, cfs, ctor>>

\* the next option of the loop is a withMaxCharacterWidth
withMaxCharacterWidth ==
    /\ ctor = "options"
    /\ oi < Len(opts)
    /\ opts[oi + 1].type = "withMaxCharacterWidth"
    /\ r' = [r EXCEPT !.maxWidth = opts[oi + 1].w]
    /\ oi' = oi + 1
    /\ UNCHANGED <<opts, cfs, ctor>>

\* fmter.NewRenderer returns once every option is applied
NewRendererReturn ==
    /\ ctor = "options"
    /\ oi = Len(opts)
    /\ ctor' = "returned"
    /\ UNCHANGED <<r, opts, oi, cfs>>

RECURSIVE RegisterLanguages(_, _, _)
\* the inner loop of mdfmt.NewRenderer: cm[l] = c for every language of c
RegisterLanguages(cm, ls, c) ==
    IF ls = <<>> THEN cm
    ELSE RegisterLanguages(SetFormatter(cm, Head(ls), c), Tail(ls), c)

RECURSIVE RegisterFormatters(_, _)
\* the outer loop of mdfmt.NewRenderer
RegisterFormatters(cm, fs) ==
    IF fs = <<>> THEN cm
    ELSE RegisterFormatters(RegisterLanguages(cm, Head(fs).languages, Head(fs).fmter),
                            Tail(fs))

\* mdfmt.NewRenderer; this Renderer has no maxWidth field, its paragraphs are
\* reflowed to the literal 80
mdfmtNewRenderer ==
    /\ ctor = "mdfmt"
    /\ r' = [codeFormatters |-> RegisterFormatters(<<>>, cfs), maxWidth |-> DefaultMaxWidth]
    /\ ctor' = "returned"
    /\ UNCHANGED <<opts, oi, cfs>>

NextRegistry ==
    \/ NewRenderer /\ UNCHANGED <<reflowVars, renderVars>>
    \/ withCodeFencerFormatter /\ UNCHANGED <<reflowVars, renderVars>>
    \/ withMaxCharacterWidth /\ UNCHANGED <<reflowVars, renderVars>>
    \/ NewRendererReturn /\ UNCHANGED <<reflowVars, renderVars>>
    \/ mdfmtNewRenderer /\ UNCHANGED <<reflowVars, renderVars>>

SpecRegistry == InitRegistry /\ [][NextRegistry]_vars

\* ------------------------------------------------- vocabulary of the claims

IsNonEmpty(t) == t # <<>>

\* the space-delimited words of t, in order
Words(t) == SelectSeq(Split(t, SP), IsNonEmpty)

HasSpace(t) == \E i \in 1..Len(t) : t[i] = SP

HasNewline(t) == \E i \in 1..Len(t) : t[i] = NL

\* words separated by exactly one space, no leading or trailing space
SingleSpaced(t) ==
    /\ t # <<>>
    /\ \A i \in 1..Len(Split(t, SP)) : Split(t, SP)[i] # <<>>

\* the text is made of lines, each single-spaced and at most wd long
AlreadyNarrow(t, wd) ==
    \A i \in 1..Len(Split(t, NL)) :
        /\ SingleSpaced(Split(t, NL)[i])
        /\ Len(Split(t, NL)[i]) <= wd

IsPrefix(a, b) == Len(a) <= Len(b) /\ SubSeq(b, 1, Len(a)) = a

\* the callbacks made for node n
Entered(n) == \E i \in 1..Len(log) : log[i].n = n /\ log[i].entering
Exited(n) == \E i \in 1..Len(log) : log[i].n = n /\ ~log[i].entering /\ log[i].ws # "panic"
EnterIdx(n) == CHOOSE i \in 1..Len(log) : log[i].n = n /\ log[i].entering
ExitIdx(n) == CHOOSE i \in 1..Len(log) : log[i].n = n /\ ~log[i].entering

\* the sink length after callback i, and the bytes callback i wrote
EndOf(i) == IF i < Len(log) THEN log[i + 1].pos ELSE Len(out)
Written(i) == SubSeq(out, log[i].pos + 1, EndOf(i))

\* everything written from entering node n to the end of leaving it
Rendered(n) == SubSeq(out, log[EnterIdx(n)].pos + 1, EndOf(ExitIdx(n)))

\* what the descendants of cell c wrote, and that followed by the padding
\* without the final separating space
CellContent(c) == SubSeq(out, log[EnterIdx(c)].pos + 3, log[ExitIdx(c)].pos)
CellField(c) == SubSeq(out, log[EnterIdx(c)].pos + 3, EndOf(ExitIdx(c)) - 1)

\* the line of row rw up to its closing bar
RowLine(rw) == SubSeq(out, log[EnterIdx(rw)].pos + 1, log[ExitIdx(rw)].pos + 1)

\* every row of the table has as many cells as its header
Rectangular(tb) ==
    \A i \in 1..Len(doc[tb].children) :
        Len(doc[doc[tb].children[i]].children) = Len(doc[doc[tb].children[1]].children)

\* the widest rendered content of column cx (0-based) of the rows
MaxContentWidth(rows, cx) == MaxOf({Len(CellContent(c)) : c \in ColumnCells(rows, cx)})

\* the largest raw content length of column cx (0-based) of the rows
MaxRawWidth(rows, cx) == MaxOf({SumLen(doc[c].lines) : c \in ColumnCells(rows, cx)})

\* the header line and the separator line the claim describes
ExpectedHeader(h) ==
    Concat([k \in 1..Len(doc[h].children) |->
        <<"|", SP>> \o CellContent(doc[h].children[k])
        \o Repeat(SP, MaxRawWidth(doc[doc[h].parent].children, k - 1)
                        - Len(CellContent(doc[h].children[k])))
        \o <<SP>>])
    \o <<"|", NL>>
ExpectedSeparator(h) ==
    Concat([k \in 1..Len(doc[h].children) |->
        <<"|">> \o Repeat("-", MaxRawWidth(doc[doc[h].parent].children, k - 1) + 2)])
    \o <<"|">>

\* the registrations made, in order: the language claimed and the formatter
IsFenceOption(o) == o.type = "withCodeFencerFormatter"
Registrations ==
    [i \in 1..Len(SelectSeq(opts, IsFenceOption)) |->
        [l |-> SelectSeq(opts, IsFenceOption)[i].l,
         fmter |-> SelectSeq(opts, IsFenceOption)[i].fmter]]
    \o Concat([i \in 1..Len(cfs) |->
        [j \in 1..Len(cfs[i].languages) |->
            [l |-> cfs[i].languages[j], fmter |-> cfs[i].fmter]]])
Claiming(tag) == {i \in 1..Len(Registrations) : Registrations[i].l = tag}

\* ------------------------------------------------------------------ claims

\* C1: for every text and every width w >= 1, every line maxWidth returns is
\* at most w long, except a line that is one single word longer than w (whose
\* length is then that word's length).
C1_WidthBound ==
    (pc = "return" /\ w >= 1) =>
        \A i \in 1..Len(res) :
            \/ Len(res[i]) <= w
            \/ /\ ~HasSpace(res[i])
               /\ Words(res[i]) = <<res[i]>>

\* a call that returned an over-long single word next to a line that fits
C1_Witness ==
    /\ pc = "return"
    /\ w >= 2
    /\ \E i \in 1..Len(res) : Len(res[i]) > w
    /\ \E i \in 1..Len(res) : res[i] # <<>> /\ Len(res[i]) <= w

\* C2: the words of the returned lines, read in order, are the words of the
\* input with its newlines read as spaces: none dropped, duplicated,
\* reordered or split.
C2_WordPreservation ==
    pc = "return" =>
        Concat([i \in 1..Len(res) |-> Words(res[i])]) = Words(ReplaceAll(s))

\* a call that returned at least two lines holding at least three words
C2_Witness ==
    /\ pc = "return"
    /\ Len(res) >= 2
    /\ Len(Words(ReplaceAll(s))) >= 3
    /\ Words(ReplaceAll(s))[1] # Words(ReplaceAll(s))[2]

\* C3 as stated: a text made of single-spaced lines that are each at most w
\* long is returned as exactly that partition into lines.
C3_Original ==
    (pc = "return" /\ s # <<>> /\ AlreadyNarrow(s, w)) => res = Split(s, NL)

\* C3 as amended: one single-spaced line without newline that is shorter than
\* w, or that is one word, is returned as one unchanged line.
C3_SingleLineUnchanged ==
    (pc = "return" /\ ~HasNewline(s) /\ SingleSpaced(s)
        /\ (Len(s) < w \/ ~HasSpace(s)))
    => res = <<s>>

\* a call on one line of several words that is shorter than w
C3_Witness ==
    /\ pc = "return"
    /\ ~HasNewline(s)
    /\ SingleSpaced(s)
    /\ Len(Words(s)) >= 2
    /\ Len(s) < w
    /\ res = <<s>>

\* C4: rendering a document that is exactly one top-level paragraph writes
\* the reflowed lines of that paragraph, each followed by one newline, and no
\* other byte.
C4_SingleParagraphOutput ==
    (status = "done" /\ doc[1].children = <<2>> /\ doc[2].kind = "Paragraph")
    => out = Concat([i \in 1..Len(maxWidth(Concat(doc[2].lines), r.maxWidth)) |->
                        maxWidth(Concat(doc[2].lines), r.maxWidth)[i] \o <<NL>>])

\* C5: in every rendered table whose rows all have as many cells as the
\* header, the lines of the header and of the data rows have the same length,
\* and every cell's content is padded to the widest content of its column.
C5_TableAlignment ==
    \A tb \in 1..Len(doc) :
        (doc[tb].kind = "Table" /\ Exited(tb) /\ Rectangular(tb)) =>
            /\ \A i, j \in 1..Len(doc[tb].children) :
                  Len(RowLine(doc[tb].children[i])) = Len(RowLine(doc[tb].children[j]))
            /\ \A i \in 1..Len(doc[tb].children) :
                  \A k \in 1..Len(doc[doc[tb].children[i]].children) :
                      Len(CellField(doc[doc[tb].children[i]].children[k]))
                          = MaxContentWidth(doc[tb].children, k - 1)

\* C6: the width of column i is the largest raw content length of the cells
\* at index i over all rows, and the header is written as, per cell, a bar, a
\* space, the content, spaces up to the column width and one space, then a
\* bar and a newline, then the separator: per column a bar and width + 2
\* dashes, then a closing bar.
C6_HeaderRendering ==
    \A h \in 1..Len(doc) :
        (doc[h].kind = "TableHeader" /\ Exited(h)) =>
            /\ attrs[h].hasWidths
            /\ Len(attrs[h].widths) = Len(doc[h].children)
            /\ \A k \in 1..Len(doc[h].children) :
                  attrs[h].widths[k] = MaxRawWidth(doc[doc[h].parent].children, k - 1)
            /\ IsPrefix(ExpectedHeader(h) \o ExpectedSeparator(h), Rendered(h))

\* C7: for a fenced code block whose language has no entry in codeFormatters,
\* the bytes written between the opening fence line and the closing fence are
\* exactly the block's raw content lines, and no formatter is called.
C7_FencedPassthrough ==
    \A i \in 1..Len(log) :
        (/\ doc[log[i].n].kind = "FencedCodeBlock"
         /\ log[i].entering
         /\ LanguageKey(doc[log[i].n]) \notin DOMAIN r.codeFormatters)
        => /\ Written(i) = <<BT, BT, BT>> \o LanguageKey(doc[log[i].n]) \o <<NL>>
                            \o Concat(doc[log[i].n].lines)
           /\ \A k \in 1..Len(calls) : calls[k].n # log[i].n
           /\ Exited(log[i].n) =>
                 Rendered(log[i].n) = <<BT, BT, BT>> \o LanguageKey(doc[log[i].n]) \o <<NL>>
                                       \o Concat(doc[log[i].n].lines) \o <<BT, BT, BT, NL>>

\* a block tagged Go rendered whole, with content, by a renderer whose only
\* formatter is registered for go
C7_Witness ==
    \E n \in 1..Len(doc) :
        /\ doc[n].kind = "FencedCodeBlock"
        /\ doc[n].hasInfo
        /\ doc[n].info = LangGoUpper
        /\ Len(doc[n].lines) = 2
        /\ DOMAIN r.codeFormatters = {LangGo}
        /\ Exited(n)

\* C8: for a fenced code block whose language has a formatter F whose call
\* succeeds, F.Format is called exactly once, on the block's raw content
\* lines; entering writes the fence, the language, a newline and then F's
\* result, leaving writes the closing fence line, and the raw bytes are not
\* written.
C8_FormattedBlock ==
    \A i \in 1..Len(log) :
        (/\ doc[log[i].n].kind = "FencedCodeBlock"
         /\ log[i].entering
         /\ LanguageKey(doc[log[i].n]) \in DOMAIN r.codeFormatters
         /\ log[i].ws # "WalkStop")
        => /\ Cardinality({k \in 1..Len(calls) : calls[k].n = log[i].n}) = 1
           /\ \A k \in 1..Len(calls) :
                 calls[k].n = log[i].n =>
                    /\ calls[k].fmter = r.codeFormatters[LanguageKey(doc[log[i].n])]
                    /\ calls[k].code = Concat(doc[log[i].n].lines)
                    /\ calls[k].err = "nil"
                    /\ Written(i) = <<BT, BT, BT>> \o doc[log[i].n].info \o <<NL>>
                                     \o calls[k].res
           /\ Exited(log[i].n) => Written(ExitIdx(log[i].n)) = <<BT, BT, BT, NL>>

\* a block with content rendered whole whose formatter returned other bytes
C8_Witness ==
    \E k \in 1..Len(calls) :
        /\ calls[k].err = "nil"
        /\ calls[k].code # <<>>
        /\ calls[k].res # calls[k].code
        /\ doc[calls[k].n].hasInfo
        /\ Exited(calls[k].n)

\* what C9 says of a state
C9_Stopped ==
    \A k \in 1..Len(calls) :
        calls[k].err # "nil" =>
            /\ k = Len(calls)
            /\ status = "stopped"
            /\ err = calls[k].err
            /\ stack = <<>>
            /\ log[Len(log)].n = calls[k].n
            /\ log[Len(log)].entering
            /\ log[Len(log)].ws = "WalkStop"
            /\ Written(Len(log)) = <<BT, BT, BT>> \o LanguageKey(doc[calls[k].n]) \o <<NL>>

\* C9: when the formatter of a fenced code block returns an error, the enter
\* handler returns WalkStop with that error having written the opening fence
\* line only; nothing is written afterwards, and what was written before
\* stays in the sink.
C9_FailFast ==
    /\ [](C9_Stopped)
    /\ [][IsPrefix(out, out') /\ (status = "stopped" => out' = out /\ log' = log)]_vars

\* a render stopped by the formatter of a second block, the first block
\* already written
C9_Witness ==
    /\ status = "stopped"
    /\ err = "FormatError"
    /\ log[Len(log)].pos > 0
    /\ doc[log[Len(log)].n].lines # <<>>

\* C10: after NewRenderer, a language is looked up to the formatter of the
\* last registration that claimed it, languages differing in case are
\* different languages, and a language no registration claimed is absent.
C10_LastRegisteredWins ==
    ctor = "returned" =>
        /\ \A tag \in Languages \cup {<<>>} :
              IF Claiming(tag) = {}
              THEN tag \notin DOMAIN r.codeFormatters
              ELSE /\ tag \in DOMAIN r.codeFormatters
                   /\ r.codeFormatters[tag] = Registrations[MaxOf(Claiming(tag))].fmter
        /\ DOMAIN r.codeFormatters \subseteq Languages

\* a renderer built from options that registered two formatters for go and
\* none for Go
C10_Witness ==
    /\ ctor = "returned"
    /\ opts # <<>>
    /\ \E i, j \in Claiming(LangGo) :
          i < j /\ Registrations[i].fmter # Registrations[j].fmter
    /\ Claiming(LangGoUpper) = {}
    /\ LangGoUpper \notin DOMAIN r.codeFormatters

\* C11: when the first word of the input is not longer than w,
\* every returned line is at most w characters wide, whatever the lengths of
\* the later words.
C11_Original ==
    (pc = "return" /\ Words(ReplaceAll(s)) # <<>>
        /\ Len(Words(ReplaceAll(s))[1]) <= w)
    => \A i \in 1..Len(res) : Len(res[i]) <= w

\* C12: for w >= 1 every returned line holds at least one word (is not
\* empty) and neither starts nor ends with a space.
C12_NoEmptyLine ==
    (pc = "return" /\ w >= 1) =>
        \A i \in 1..Len(res) :
            /\ res[i] # <<>>
            /\ Words(res[i]) # <<>>
            /\ Head(res[i]) # SP
            /\ res[i][Len(res[i])] # SP

\* C13: an input made only of spaces and newlines gives the empty sequence
\* of lines, as the empty input does.
C13_WhitespaceOnly ==
    (pc = "return" /\ Words(ReplaceAll(s)) = <<>>) => res = <<>>

IsWidthOption(o) == o.type = "withMaxCharacterWidth"

\* C14: the renderer fmter.NewRenderer returns has a positive maxWidth, which
\* is 80 when no WithMaxCharacterWidth option was given.
C14_PositiveWidth ==
    (ctor = "returned" /\ cfs = <<>>) =>
        /\ r.maxWidth >= 1
        /\ SelectSeq(opts, IsWidthOption) = <<>> => r.maxWidth = DefaultMaxWidth

\* C15: rendering an indented code block writes its raw content lines byte
\* for byte.
C15_CodeBlockPassthrough ==
    \A n \in 1..Len(doc) :
        (doc[n].kind = "CodeBlock" /\ Exited(n)) =>
            Rendered(n) = Concat(doc[n].lines)

\* the lines of a written text: the text cut after each newline
LinesWritten(b) ==
    IF b = <<>> THEN <<>>
    ELSE SubSeq(Split(b, NL), 1, Len(Split(b, NL)) - 1)

IsTextKind(k) == k \in {"Paragraph", "TextBlock"}

\* C16: on enter a Paragraph or TextBlock writes each line of the reflow of
\* its raw content at the renderer's maxWidth followed by one newline; on
\* exit it writes one newline if its parent is the Document and nothing
\* otherwise.
C16_TextBlockBytes ==
    \A i \in 1..Len(log) :
        IsTextKind(doc[log[i].n].kind) =>
            IF log[i].entering
            THEN /\ LinesWritten(Written(i))
                      = maxWidth(Concat(doc[log[i].n].lines), r.maxWidth)
                 /\ Written(i) # <<>> => Written(i)[Len(Written(i))] = NL
            ELSE Written(i) = (IF doc[doc[log[i].n].parent].kind = "Document"
                               THEN <<NL>> ELSE <<>>)

\* a finished render at the narrow width in which a TextBlock inside a list
\* item was reflowed to several lines and left without a byte, and a
\* top-level Paragraph was left with one newline
C16_Witness ==
    /\ status = "done"
    /\ r.maxWidth = NarrowWidth
    /\ \E i, j \in 1..Len(log) :
          /\ doc[log[i].n].kind = "TextBlock"
          /\ log[i].entering
          /\ Len(LinesWritten(Written(i))) >= 2
          /\ log[j].n = log[i].n
          /\ ~log[j].entering
          /\ doc[doc[log[j].n].parent].kind = "ListItem"
          /\ Written(j) = <<>>
    /\ \E i \in 1..Len(log) :
          /\ doc[log[i].n].kind = "Paragraph"
          /\ ~log[i].entering
          /\ doc[doc[log[i].n].parent].kind = "Document"
          /\ Written(i) = <<NL>>

RECURSIVE InsideText(_)
\* n is a descendant of a Paragraph or TextBlock
InsideText(n) ==
    /\ doc[n].parent # 0
    /\ \/ IsTextKind(doc[doc[n].parent].kind)
       \/ InsideText(doc[n].parent)

\* C17: no handler is invoked for a descendant of a Paragraph or TextBlock,
\* and what a rendered Paragraph or TextBlock leaves in the sink is the words
\* of its raw content, each once and in order.
C17_ChildrenSuppressed ==
    /\ \A i \in 1..Len(log) : ~InsideText(log[i].n)
    /\ \A n \in 1..Len(doc) :
          (IsTextKind(doc[n].kind) /\ Exited(n)) =>
              Words(ReplaceAll(Rendered(n))) = Words(ReplaceAll(Concat(doc[n].lines)))

\* a finished render of a paragraph that has an Emphasis or CodeSpan child
C17_Witness ==
    /\ status = "done"
    /\ \E n \in 1..Len(doc) :
          /\ doc[n].kind = "Paragraph"
          /\ Exited(n)
          /\ \E k \in 1..Len(doc[n].children) :
                doc[doc[n].children[k]].kind \in {"Emphasis", "CodeSpan"}

\* C18 as stated: leaving a List writes one newline unless the next sibling
\* is a List, so also when there is no next sibling; entering writes nothing.
C18_Original ==
    \A i \in 1..Len(log) :
        doc[log[i].n].kind = "List" =>
            IF log[i].entering THEN Written(i) = <<>>
            ELSE Written(i) =
                    (IF doc[log[i].n].next # 0 /\ doc[doc[log[i].n].next].kind = "List"
                     THEN <<>> ELSE <<NL>>)

\* C18 as amended: leaving a List writes one newline exactly when the List
\* has a next sibling and that sibling is not a List; a List without next
\* sibling gets none; entering writes nothing.
C18_ListSeparator ==
    \A i \in 1..Len(log) :
        doc[log[i].n].kind = "List" =>
            IF log[i].entering THEN Written(i) = <<>>
            ELSE /\ doc[log[i].n].next = 0 => Written(i) = <<>>
                 /\ doc[log[i].n].next # 0 =>
                        Written(i) = (IF doc[doc[log[i].n].next].kind = "List"
                                      THEN <<>> ELSE <<NL>>)

\* a finished render in which one List was left without next sibling and
\* another was left before a Paragraph
C18_Witness ==
    /\ status = "done"
    /\ \E i \in 1..Len(log) :
          /\ doc[log[i].n].kind = "List"
          /\ ~log[i].entering
          /\ doc[log[i].n].next = 0
          /\ Written(i) = <<>>
    /\ \E i \in 1..Len(log) :
          /\ doc[log[i].n].kind = "List"
          /\ ~log[i].entering
          /\ doc[log[i].n].next # 0
          /\ doc[doc[log[i].n].next].kind = "Paragraph"
          /\ Written(i) = <<NL>>

DigitValue(c) == CHOOSE d \in 0..9 : Digit(d) = c

RECURSIVE Atoi(_)
\* the number a sequence of decimal digits denotes
Atoi(ds) ==
    IF ds = <<>> THEN 0
    ELSE 10 * Atoi(SubSeq(ds, 1, Len(ds) - 1)) + DigitValue(ds[Len(ds)])

IsDigits(ds) ==
    /\ ds # <<>>
    /\ \A k \in 1..Len(ds) : \E d \in 0..9 : Digit(d) = ds[k]

\* C19: entering a ListItem writes Offset - 2 spaces, then for an ordered
\* list the start number of the list (the same for every item), then the
\* marker character and one space; leaving it writes nothing.
C19_ItemMarker ==
    \A i \in 1..Len(log) :
        doc[log[i].n].kind = "ListItem" =>
            IF ~log[i].entering THEN Written(i) = <<>>
            ELSE LET b == Written(i)
                     ind == doc[log[i].n].offset - 2
                     l == doc[doc[log[i].n].parent]
                     number == SubSeq(b, ind + 1, Len(b) - 2)
                 IN /\ Len(b) >= ind + 2
                    /\ SubSeq(b, 1, ind) = Repeat(SP, ind)
                    /\ b[Len(b)] = SP
                    /\ b[Len(b) - 1] = l.marker
                    /\ IF l.ordered
                       THEN IsDigits(number) /\ Atoi(number) = l.start
                       ELSE number = <<>>

\* a finished render of an ordered list starting at 12 whose first and second
\* items were both written with the number 12
C19_Witness ==
    /\ status = "done"
    /\ \E i, j \in 1..Len(log) :
          /\ i < j
          /\ log[i].entering /\ log[j].entering
          /\ doc[log[i].n].kind = "ListItem" /\ doc[log[j].n].kind = "ListItem"
          /\ doc[log[i].n].parent = doc[log[j].n].parent
          /\ doc[doc[log[i].n].parent].ordered
          /\ doc[doc[log[i].n].parent].start = 12
          /\ Written(i) = Written(j)

AllText(n) == \A k \in 1..Len(doc[n].children) : doc[doc[n].children[k]].kind = "Text"

\* a segment value with its trailing newline, if any, replaced by a space
Spaced(v) == [k \in 1..Len(v) |-> IF k = Len(v) /\ v[k] = NL THEN SP ELSE v[k]]

\* C20: a CodeSpan or Emphasis whose children are all Text nodes is written
\* as its prefix, its children's segment values in order with a trailing
\* newline turned into a space, and its suffix; no handler is invoked for
\* the children and the span's output holds no newline.
C20_SpanBytes ==
    \A n \in 1..Len(doc) :
        (doc[n].kind \in {"CodeSpan", "Emphasis"} /\ AllText(n) /\ Exited(n)
            /\ ~InsideText(n)) =>
            /\ Rendered(n) =
                  (IF doc[n].kind = "Emphasis" THEN <<"*", "*">> ELSE <<BT>>)
                  \o Concat([k \in 1..Len(doc[n].children) |->
                                Spaced(doc[doc[n].children[k]].seg)])
                  \o (IF doc[n].kind = "Emphasis" THEN <<"*", "*">> ELSE <<BT>>)
            /\ log[EnterIdx(n)].ws = "WalkSkipChildren"
            /\ \A i \in 1..Len(log) : doc[log[i].n].parent # n
            /\ ~HasNewline(Rendered(n))

\* a code span whose first segment ends its source line was written and left
C20_Witness ==
    \E n \in 1..Len(doc) :
        /\ doc[n].kind = "CodeSpan"
        /\ Exited(n)
        /\ Len(doc[n].children) = 2
        /\ doc[doc[n].children[1]].seg = <<"a", NL>>
        /\ Rendered(n) = <<BT, "a", SP, "b", BT>>

\* the text is made of words separated by exactly one space or newline
SingleSeparated(t) == SingleSpaced(ReplaceAll(t))

\* the lines joined by single spaces
RECURSIVE JoinLines(_)
JoinLines(ls) ==
    IF ls = <<>> THEN <<>>
    ELSE IF Len(ls) = 1 THEN ls[1]
    ELSE ls[1] \o <<SP>> \o JoinLines(Tail(ls))

\* C22 as stated: on single-spaced input a line is closed before a word only
\* when the line with that word and its separating space would be longer
\* than w, and every word that fits within w is placed on the current line.
C22_Original ==
    (pc = "return" /\ w >= 1 /\ SingleSeparated(s)) =>
        \A i \in 1..(Len(res) - 1) :
            Len(res[i]) + 1 + Len(Words(res[i + 1])[1]) > w

\* C22 as amended: on single-spaced input a line is closed before a word
\* exactly when the line with that word and its separating space would be w
\* long or longer; every word added to a line leaves the line shorter than w.
C22_GreedyClosing ==
    (pc = "return" /\ w >= 1 /\ SingleSeparated(s)) =>
        /\ \A i \in 1..(Len(res) - 1) :
              Len(res[i]) + 1 + Len(Words(res[i + 1])[1]) >= w
        /\ \A i \in 1..Len(res) :
              Len(Words(res[i])) >= 2 => Len(res[i]) < w

\* a call on single-spaced input that placed a second word on the first line
\* and closed it before a word that would have made it exactly w long
C22_Witness ==
    /\ pc = "return"
    /\ w >= 1
    /\ SingleSeparated(s)
    /\ Len(res) >= 2
    /\ Len(Words(res[1])) >= 2
    /\ Len(res[1]) + 1 + Len(Words(res[2])[1]) = w

\* C23: for single-spaced input and w >= 1, reflowing the lines after the
\* first one, joined by single spaces, gives those same lines: a line that
\* starts after a space has the capacity of a line that starts the text.
C23_ContinuationCapacity ==
    (pc = "return" /\ w >= 1 /\ SingleSeparated(s) /\ Len(res) >= 2) =>
        maxWidth(JoinLines(Tail(res)), w) = Tail(res)

\* a call on single-spaced input whose second line holds two words and is one
\* character short of w
C23_Witness ==
    /\ pc = "return"
    /\ w >= 1
    /\ SingleSeparated(s)
    /\ Len(res) >= 2
    /\ Len(Words(res[2])) >= 2
    /\ Len(res[2]) = w - 1

\* the number of space-delimited segments of the input
Segments(t) == Len(Split(ReplaceAll(t), SP))

\* C25: maxWidth returns for every input and every width, w <= 0 included:
\* each iteration of the outer loop moves lineStart forward, the positions
\* used to index and slice the text stay within it, and there are at most as
\* many lines as the input has space-delimited segments.
C25_Terminates ==
    /\ <>(pc = "return")
    /\ [][res' # res => (lineStart' > lineStart /\ lineStart' <= Len(inds) - 1)]_vars
    /\ []((pc = "loop" /\ lineStart < Len(inds) - 1) =>
            /\ At(inds, lineStart) >= 0
            /\ At(inds, lineStart) < Len(sr)
            /\ LineEnd(sr, inds, lineStart, w) <= Len(inds) - 1
            /\ At(inds, lineStart) <= At(inds, LineEnd(sr, inds, lineStart, w))
            /\ At(inds, LineEnd(sr, inds, lineStart, w)) <= Len(sr))
    /\ [](Len(res) <= Segments(s))

\* a call with a width that is not positive returned one line per segment of
\* an input of several segments
C25_Witness ==
    /\ pc = "return"
    /\ w <= 0
    /\ Segments(s) >= 3
    /\ Len(res) = Segments(s)

IsRowKind(k) == k \in {"TableHeader", "TableRow"}

\* every TableHeader and TableRow is a child of a Table and every TableCell a
\* child of a TableHeader or TableRow
TablesWellFormed ==
    \A n \in 1..Len(doc) :
        /\ IsRowKind(doc[n].kind) =>
              doc[n].parent # 0 /\ doc[doc[n].parent].kind = "Table"
        /\ doc[n].kind = "TableCell" =>
              doc[n].parent # 0 /\ IsRowKind(doc[doc[n].parent].kind)

\* C21: in a walk of a tree whose rows are children of tables and whose cells
\* are children of rows, the attribute a row handler (enter and exit) or a
\* cell handler (exit) is about to read has been written, and no such handler
\* has failed; in any tree, a row or cell handler called on a node without
\* its attribute fails fatally and writes nothing.
C21_AttributeOrdering ==
    /\ TablesWellFormed =>
          /\ (status = "walking" /\ stack # <<>>) =>
                /\ IsRowKind(node.kind) => attrs[cur.n].hasWidths
                /\ (node.kind = "TableCell" /\ ~cur.entering) => attrs[cur.n].hasWidth
          /\ \A i \in 1..Len(log) :
                (IsRowKind(doc[log[i].n].kind) \/ doc[log[i].n].kind = "TableCell")
                    => log[i].ws # "panic"
    /\ \A i \in 1..Len(log) :
          /\ (IsRowKind(doc[log[i].n].kind) /\ ~attrs[log[i].n].hasWidths) =>
                log[i].ws = "panic" /\ Written(i) = <<>> /\ status = "panic"
          /\ (doc[log[i].n].kind = "TableCell" /\ ~log[i].entering
                /\ ~attrs[log[i].n].hasWidth) =>
                log[i].ws = "panic" /\ Written(i) = <<>> /\ status = "panic"

\* a finished render of a table with a data row: the handlers of the header,
\* of the row and of a cell of each have read their attributes
C21_Witness ==
    /\ status = "done"
    /\ TablesWellFormed
    /\ \E tb \in 1..Len(doc) :
          /\ doc[tb].kind = "Table"
          /\ Len(doc[tb].children) >= 2
          /\ \A k \in 1..Len(doc[tb].children) :
                /\ Exited(doc[tb].children[k])
                /\ attrs[doc[tb].children[k]].hasWidths
                /\ \A c \in 1..Len(doc[doc[tb].children[k]].children) :
                      /\ Exited(doc[doc[tb].children[k]].children[c])
                      /\ attrs[doc[doc[tb].children[k]].children[c]].hasWidth

\* some row of the table has more cells than its first row
WiderRow(tb) ==
    \E k \in 1..Len(doc[tb].children) :
        Len(doc[doc[tb].children[k]].children) > Len(doc[doc[tb].children[1]].children)

\* C24: the width vector set on the rows of a table has one entry per cell of
\* the first row, whatever the other rows' cell counts; when a later row has
\* more cells than the first, entering the table fails fatally and nothing is
\* written for the table.
C24_WidthVector ==
    \A i \in 1..Len(log) :
        (doc[log[i].n].kind = "Table" /\ log[i].entering) =>
            IF WiderRow(log[i].n)
            THEN /\ log[i].ws = "panic"
                 /\ status = "panic"
                 /\ i = Len(log)
                 /\ Len(out) = log[i].pos
                 /\ \A k \in 1..Len(doc[log[i].n].children) :
                       ~attrs[doc[log[i].n].children[k]].hasWidths
            ELSE /\ log[i].ws = "WalkContinue"
                 /\ \A k \in 1..Len(doc[log[i].n].children) :
                       /\ attrs[doc[log[i].n].children[k]].hasWidths
                       /\ Len(attrs[doc[log[i].n].children[k]].widths)
                             = Len(doc[doc[log[i].n].children[1]].children)

\* the render of a table whose header has one cell and whose data row has two
\* has failed on entering the table
C24_Witness ==
    /\ status = "panic"
    /\ out = <<>>
    /\ \E i \in 1..Len(log) :
          /\ doc[log[i].n].kind = "Table"
          /\ log[i].ws = "panic"
          /\ Len(doc[log[i].n].children) = 2
          /\ Len(doc[doc[log[i].n].children[1]].children) = 1
          /\ Len(doc[doc[log[i].n].children[2]].children) = 2

\* the cell belongs to a table whose rows all have as many cells as the header
InRectangularTable(c) ==
    /\ doc[c].parent # 0
    /\ IsRowKind(doc[doc[c].parent].kind)
    /\ doc[doc[c].parent].parent # 0
    /\ doc[doc[doc[c].parent].parent].kind = "Table"
    /\ Rectangular(doc[doc[c].parent].parent)

\* C26: in a table whose rows all have as many cells as the header, leaving a
\* cell computes a padding (column width less raw content length) that is not
\* negative and writes padding + 1 spaces, so at least one.
C26_PaddingNotNegative ==
    \A i \in 1..Len(log) :
        (doc[log[i].n].kind = "TableCell" /\ ~log[i].entering
            /\ InRectangularTable(log[i].n)) =>
            /\ log[i].ws = "WalkContinue"
            /\ attrs[log[i].n].hasWidth
            /\ attrs[log[i].n].width - SumLen(doc[log[i].n].lines) >= 0
            /\ Len(Written(i)) >= 1
            /\ Written(i) = Repeat(SP, attrs[log[i].n].width - SumLen(doc[log[i].n].lines) + 1)

\* a finished render of a table of two rows of equal cell count in which one
\* cell was left with padding and another, the widest of its column, with
\* the single space
C26_Witness ==
    /\ status = "done"
    /\ \E i, j \in 1..Len(log) :
          /\ doc[log[i].n].kind = "TableCell" /\ ~log[i].entering
          /\ doc[log[j].n].kind = "TableCell" /\ ~log[j].entering
          /\ InRectangularTable(log[i].n)
          /\ doc[doc[log[i].n].parent].parent = doc[doc[log[j].n].parent].parent
          /\ Len(Written(i)) >= 2
          /\ Written(j) = <<SP>>

====
